---- MODULE Spec2Model ----
(***************************************************************************)
(* Model of the Kaleidoscope front end of src/unnamed/part_000: the lexer  *)
(* gettok over a character stream, the token cursor CurTok/getNextToken,   *)
(* the recursive-descent parser and the driver MainLoop.                   *)
(*                                                                         *)
(* Characters and tokens are C ints as in the source: a character is its   *)
(* ASCII code, EOF is -1, the named tokens are the negative values of enum *)
(* Token, strings are sequences of character codes.  The C call stack is   *)
(* the variable stack (one frame per active parse routine), and a routine  *)
(* that calls another is split at the call: the step up to the call pushes *)
(* the callee's frame, the callee's return pops it and leaves its value in *)
(* ret, and the caller's next step reads ret.                              *)
(***************************************************************************)
EXTENDS Integers, Sequences, FiniteSets, TLC

\* ------------------------------------------------------------------ bounds
\* Longest free sequence of lexemes offered as input.
MaxToks == 3
\* Most operators in an offered operator chain  a op b op c ...
MaxOps == 2
\* Most arguments in an offered call, most parameters in an offered prototype.
MaxArgs == 2
MaxParams == 2
\* Longest character string offered to the lexer alone.
MaxChars == 4
MaxEofCalls == 2
MaxWords == 2
MaxNumLen == 5

\* ------------------------------------------------------- enum Token, EOF
tok_eof == -1
tok_def == -2
tok_extern == -3
tok_identifier == -4
tok_number == -5
\* <cstdio> EOF, as returned by getchar() at end of input.
EOF == -1

\* Character codes of the literals the source names.
CH_LF == 10
CH_CR == 13
CH_SPACE == 32
CH_HASH == 35
CH_LPAREN == 40
CH_RPAREN == 41
CH_STAR == 42
CH_PLUS == 43
CH_COMMA == 44
CH_MINUS == 45
CH_DOT == 46
CH_SEMI == 59
CH_LT == 60
\* "def" and "extern" as character codes.
STR_def == <<100, 101, 102>>
STR_extern == <<101, 120, 116, 101, 114, 110>>

\* ------------------------------------------------------------- <cctype>
isspace(c) == c \in {9, 10, 11, 12, 13, 32}
isdigit(c) == c \in 48..57
isalpha(c) == c \in (65..90) \cup (97..122)
isalnum(c) == isalpha(c) \/ isdigit(c)
isascii(c) == c \in 0..127

\* LET x == v IN F(x), with v evaluated once however often F uses x (TLC
\* evaluates a LET definition anew at every use inside ENABLED and inside an
\* invariant, which is exponential in a recursion).
Let(v, F(_)) == CHOOSE r \in {F(x) : x \in {v}} : TRUE

\* ------------------------------------------------------------ std::strtod
\* A decimal value n / 10^k is the pair <<n, k>> with no trailing zero in the
\* fraction, so that 1.50 and 1.5 are the same value.
RECURSIVE Normal(_, _)
Normal(n, k) ==
  IF k > 0 /\ n % 10 = 0 THEN Let(n \div 10, LAMBDA m : Normal(m, k - 1))
  ELSE <<n, k>>

\* strtod(num_str, 0) on a string of digits and dots: the value of the longest
\* prefix that is a decimal number (digits, at most one dot, at least one
\* digit); 0 when there is no such prefix.
\* i: next index, n: the digits so far as an integer, k: how many of them
\* follow the dot, dot: a dot was seen, any: a digit was seen
RECURSIVE ScanDecimal(_, _)
ScanDecimal(num_str, st) ==
  IF st.i > Len(num_str) THEN st
  ELSE IF isdigit(num_str[st.i])
  THEN Let([st EXCEPT !.i = st.i + 1, !.n = 10 * st.n + (num_str[st.i] - 48),
                      !.k = IF st.dot THEN st.k + 1 ELSE st.k, !.any = TRUE],
           LAMBDA t : ScanDecimal(num_str, t))
  ELSE IF num_str[st.i] = CH_DOT /\ ~st.dot
  THEN Let([st EXCEPT !.i = st.i + 1, !.dot = TRUE],
           LAMBDA t : ScanDecimal(num_str, t))
  ELSE st

strtod(num_str) ==
  Let(ScanDecimal(num_str, [i |-> 1, n |-> 0, k |-> 0, dot |-> FALSE,
                            any |-> FALSE]),
      LAMBDA r : IF r.any THEN Normal(r.n, r.k) ELSE <<0, 0>>)

\* ---------------------------------------------------------------- gettok
\* The lexer's state: the stream (inp, with pos characters read by reads
\* calls of getchar), the static last_char, and the globals identifierString
\* and NumVal.
LexInit(inp) ==
  [inp |-> inp, pos |-> 0, reads |-> 0, last_char |-> CH_SPACE,
   identifierString |-> <<>>, NumVal |-> <<0, 0>>]

\* last_char = getchar(): the next character, or EOF with the stream left
\* where it is.
getchar(L) ==
  IF L.pos < Len(L.inp)
  THEN [L EXCEPT !.pos = L.pos + 1, !.reads = L.reads + 1,
                 !.last_char = L.inp[L.pos + 1]]
  ELSE [L EXCEPT !.reads = L.reads + 1, !.last_char = EOF]

\* while (isspace(last_char)) last_char = getchar();
RECURSIVE SkipSpace(_)
SkipSpace(L) ==
  IF isspace(L.last_char) THEN Let(getchar(L), LAMBDA N : SkipSpace(N)) ELSE L

\* A variant that pushes the character after an identifier back onto the
\* stream and keeps a blank as lookahead.
RECURSIVE ReadIdentifier_Unget(_)
ReadIdentifier_Unget(L) ==
  Let(getchar(L), LAMBDA N :
    IF isalnum(N.last_char)
    THEN Let([N EXCEPT !.identifierString =
                         Append(N.identifierString, N.last_char)],
             LAMBDA M : ReadIdentifier_Unget(M))
    ELSE [N EXCEPT !.pos = IF N.last_char = EOF THEN N.pos ELSE N.pos - 1,
                   !.last_char = CH_SPACE])

\* A variant that continues an identifier with letters only.
RECURSIVE ReadIdentifier_Letters(_)
ReadIdentifier_Letters(L) ==
  Let(getchar(L), LAMBDA N :
    IF isalpha(N.last_char)
    THEN Let([N EXCEPT !.identifierString =
                         Append(N.identifierString, N.last_char)],
             LAMBDA M : ReadIdentifier_Letters(M))
    ELSE N)

\* while (isalnum((last_char = getchar()))) identifierString += last_char;
RECURSIVE ReadIdentifier(_)
ReadIdentifier(L) ==
  Let(getchar(L), LAMBDA N :
    IF isalnum(N.last_char)
    THEN Let([N EXCEPT !.identifierString =
                         Append(N.identifierString, N.last_char)],
             LAMBDA M : ReadIdentifier(M))
    ELSE N)

\* A variant that continues a number with digits only.
RECURSIVE ReadNumber_DigitsOnly(_, _)
ReadNumber_DigitsOnly(L, num_str) ==
  Let(<<getchar(L), Append(num_str, L.last_char)>>, LAMBDA r :
    IF isdigit(r[1].last_char)
    THEN ReadNumber_DigitsOnly(r[1], r[2]) ELSE r)

\* do { num_str += last_char; last_char = getchar(); }
\* while (isdigit(last_char) || last_char == '.');
\* The result is <<lexer state, num_str>>.
RECURSIVE ReadNumber(_, _)
ReadNumber(L, num_str) ==
  Let(<<getchar(L), Append(num_str, L.last_char)>>, LAMBDA r :
    IF isdigit(r[1].last_char) \/ r[1].last_char = CH_DOT
    THEN ReadNumber(r[1], r[2]) ELSE r)

\* A variant that ends a comment at '\n' only.
RECURSIVE SkipComment_ToLF(_)
SkipComment_ToLF(L) ==
  Let(getchar(L), LAMBDA N :
    IF N.last_char # EOF /\ N.last_char # CH_LF
    THEN SkipComment_ToLF(N) ELSE N)

\* do last_char = getchar();
\* while (last_char != EOF && last_char != '\n' && last_char != '\r');
RECURSIVE SkipComment(_)
SkipComment(L) ==
  Let(getchar(L), LAMBDA N :
    IF N.last_char # EOF /\ N.last_char # CH_LF /\ N.last_char # CH_CR
    THEN SkipComment(N) ELSE N)

\* A variant that reads on past EOF: the end-of-file check ends with
\* last_char = getchar().
RECURSIVE gettok_EatEOF(_)
gettok_EatEOF(L0) ==
  Let(SkipSpace(L0), LAMBDA L :
    IF isalpha(L.last_char)
    THEN Let(ReadIdentifier([L EXCEPT !.identifierString = <<L.last_char>>]),
             LAMBDA N :
               IF N.identifierString = STR_def THEN <<tok_def, N>>
               ELSE IF N.identifierString = STR_extern THEN <<tok_extern, N>>
               ELSE <<tok_identifier, N>>)
    ELSE IF isdigit(L.last_char) \/ L.last_char = CH_DOT
    THEN Let(ReadNumber(L, <<>>), LAMBDA r :
               <<tok_number, [r[1] EXCEPT !.NumVal = strtod(r[2])]>>)
    ELSE Let(IF L.last_char = CH_HASH THEN SkipComment(L) ELSE L, LAMBDA C :
               IF L.last_char = CH_HASH /\ C.last_char # EOF
               THEN gettok_EatEOF(C)
               ELSE IF C.last_char = EOF THEN <<tok_eof, getchar(C)>>
               ELSE <<C.last_char, getchar(C)>>))

\* gettok(): <<token, lexer state after the call>>.
RECURSIVE gettok(_)
gettok(L0) ==
  Let(SkipSpace(L0), LAMBDA L :
    IF isalpha(L.last_char)
    THEN Let(ReadIdentifier([L EXCEPT !.identifierString = <<L.last_char>>]),
             LAMBDA N :
               IF N.identifierString = STR_def THEN <<tok_def, N>>
               ELSE IF N.identifierString = STR_extern THEN <<tok_extern, N>>
               ELSE <<tok_identifier, N>>)
    ELSE IF isdigit(L.last_char) \/ L.last_char = CH_DOT
    THEN Let(ReadNumber(L, <<>>), LAMBDA r :
               <<tok_number, [r[1] EXCEPT !.NumVal = strtod(r[2])]>>)
    ELSE Let(IF L.last_char = CH_HASH THEN SkipComment(L) ELSE L, LAMBDA C :
               IF L.last_char = CH_HASH /\ C.last_char # EOF THEN gettok(C)
               ELSE IF C.last_char = EOF THEN <<tok_eof, C>>
               ELSE <<C.last_char, getchar(C)>>))

\* ------------------------------------------------------------------- AST
\* A null unique_ptr.
nullptr == <<>>
NumberExprAST(Val) == <<"Number", Val>>
VariableExprAST(Name) == <<"Variable", Name>>
BinaryExprAST(Op, LHS, RHS) == <<"Binary", Op, LHS, RHS>>
CallExprAST(Callee, Args) == <<"Call", Callee, Args>>
PrototypeAST(Name, Args) == <<"Prototype", Name, Args>>
FunctionAST(Proto, Body) == <<"Function", Proto, Body>>

\* ------------------------------------------------------------------ state
VARIABLES
  input,             \* the characters of standard input
  pos,               \* how many of them getchar() has read
  reads,             \* history: how many times getchar() has been called
  last_char,         \* gettok's static lookahead character
  identifierString,  \* filled in if tok_identifier
  NumVal,            \* filled in if tok_number
  CurTok,            \* the current token
  toks,              \* history: the tokens gettok has returned, in order
  BinopPrecedence,   \* std::map<char, int>
  stack,             \* the active routines, innermost last
  ret,               \* the value the last return handed to its caller
  log,               \* the lines written to stderr (without the prompt)
  pc                 \* where the program is: main, prime, run, done; for
                     \* the lexer alone: lex, lexed, again, lex2, lexed2

lexvars == <<pos, reads, last_char, identifierString, NumVal, CurTok, toks>>
vars == <<input, pos, reads, last_char, identifierString, NumVal, CurTok, toks,
          BinopPrecedence, stack, ret, log, pc>>

\* ------------------------------------------------- CurTok / getNextToken
\* What a token is to the parser: its code and the payload filled in for it.
Token(tok, L) ==
  IF tok = tok_identifier THEN <<tok, L.identifierString>>
  ELSE IF tok = tok_number THEN <<tok, L.NumVal>>
  ELSE <<tok>>

\* The cursor: the lexer's state, CurTok and the history.
Cursor ==
  [L |-> [inp |-> input, pos |-> pos, reads |-> reads,
          last_char |-> last_char,
          identifierString |-> identifierString, NumVal |-> NumVal],
   CurTok |-> CurTok, toks |-> toks]

\* return CurTok = gettok();
getNextToken(K) ==
  Let(gettok(K.L), LAMBDA r :
    [L |-> r[2], CurTok |-> r[1], toks |-> Append(K.toks, Token(r[1], r[2]))])

SetCursor(K) ==
  /\ pos' = K.L.pos
  /\ reads' = K.L.reads
  /\ last_char' = K.L.last_char
  /\ identifierString' = K.L.identifierString
  /\ NumVal' = K.L.NumVal
  /\ CurTok' = K.CurTok
  /\ toks' = K.toks

\* --------------------------------------------------------- the call stack
\* One frame per active routine, entered with the cursor at K: the routine,
\* where it is, the number of tokens read when it was entered (history), and
\* its locals: IdName (FnName
\* in ParsePrototype), Args, node (Proto, V, LHS), ExprPrec and TokPrec.
Frame(fn, K) ==
  [fn |-> fn, pc |-> "start", at |-> Len(K.toks), IdName |-> <<>>,
   Args |-> <<>>, node |-> nullptr, ExprPrec |-> 0, TokPrec |-> 0]

NoRet == [from |-> "", val |-> nullptr, at |-> 0]
Depth == Len(stack)
Top == stack[Depth]
Running(fn, at) == pc = "run" /\ Depth > 0 /\ Top.fn = fn /\ Top.pc = at

\* The running routine moves to `next` (a frame: itself, with its locals
\* updated) and calls `callee`.
Call(next, callee) ==
  /\ stack' = Append([stack EXCEPT ![Depth] = next], callee)
  /\ ret' = NoRet

\* The running routine returns val to its caller.
Return(val) ==
  /\ stack' = SubSeq(stack, 1, Depth - 1)
  /\ ret' = [from |-> Top.fn, val |-> val, at |-> Top.at]

\* LogError / LogErrorP, and the driver's fprintf(stderr, ...).
LogError(Str) == log' = Append(log, Str)

\* ------------------------------------------------------ numberexpr, paren
\* auto Result = make_unique<NumberExprAST>(NumVal); getNextToken(); return
ParseNumberExpr ==
  /\ Running("ParseNumberExpr", "start")
  /\ SetCursor(getNextToken(Cursor))
  /\ Return(NumberExprAST(NumVal))
  /\ UNCHANGED <<input, BinopPrecedence, log, pc>>

\* A variant that eats whatever follows the inner expression as if it
\* were the ')'.
ParseParenExpr_AnyCloser ==
  \/ /\ Running("ParseParenExpr", "start")
     /\ LET K == getNextToken(Cursor)
        IN /\ SetCursor(K)
           /\ Call([Top EXCEPT !.pc = "V"], Frame("ParseExpression", K))
     /\ UNCHANGED <<input, BinopPrecedence, log, pc>>
  \/ /\ Running("ParseParenExpr", "V")
     /\ IF ret.val = nullptr
        THEN Return(nullptr) /\ UNCHANGED <<lexvars, log>>
        ELSE /\ SetCursor(getNextToken(Cursor))
             /\ Return(ret.val)
             /\ UNCHANGED log
     /\ UNCHANGED <<input, BinopPrecedence, pc>>

ParseParenExpr ==
  \/ /\ Running("ParseParenExpr", "start")
     /\ LET K == getNextToken(Cursor)        \* eat (
        IN /\ SetCursor(K)
           /\ Call([Top EXCEPT !.pc = "V"], Frame("ParseExpression", K))
     /\ UNCHANGED <<input, BinopPrecedence, log, pc>>
  \/ /\ Running("ParseParenExpr", "V")
     /\ IF ret.val = nullptr
        THEN Return(nullptr) /\ UNCHANGED <<lexvars, log>>
        ELSE IF CurTok # CH_RPAREN
        THEN /\ LogError("expected ')")
             /\ Return(nullptr)
             /\ UNCHANGED lexvars
        ELSE /\ SetCursor(getNextToken(Cursor))
             /\ Return(ret.val)
             /\ UNCHANGED log
     /\ UNCHANGED <<input, BinopPrecedence, pc>>

\* --------------------------------------------------------- identifierexpr
\* A variant that reads identifierString for the name after the identifier
\* has been eaten.
ParseIdentifierExpr_LateName ==
  \/ /\ Running("ParseIdentifierExpr", "start")
     /\ LET K1 == getNextToken(Cursor)
            IdName == K1.L.identifierString
            K2 == getNextToken(K1)
        IN IF K1.CurTok # CH_LPAREN
           THEN SetCursor(K1) /\ Return(VariableExprAST(IdName))
           ELSE IF K2.CurTok # CH_RPAREN
           THEN /\ SetCursor(K2)
                /\ Call([Top EXCEPT !.pc = "Arg", !.IdName = IdName],
                        Frame("ParseExpression", K2))
           ELSE /\ SetCursor(getNextToken(K2))
                /\ Return(CallExprAST(IdName, <<>>))
     /\ UNCHANGED <<input, BinopPrecedence, log, pc>>
  \/ /\ Running("ParseIdentifierExpr", "Arg")
     /\ IF ret.val = nullptr
        THEN Return(nullptr) /\ UNCHANGED <<lexvars, log>>
        ELSE IF CurTok = CH_RPAREN
        THEN /\ LogError("Expected ')' or ',' in argument list")
             /\ Return(nullptr)
             /\ UNCHANGED lexvars
        ELSE LET K == getNextToken(Cursor)
             IN /\ SetCursor(K)
                /\ Call([Top EXCEPT !.Args = Append(Top.Args, ret.val)],
                        Frame("ParseExpression", K))
                /\ UNCHANGED log
     /\ UNCHANGED <<input, BinopPrecedence, pc>>

\* A variant that returns the call with no arguments without eating the ')'.
ParseIdentifierExpr_KeepParen ==
  \/ /\ Running("ParseIdentifierExpr", "start")
     /\ LET IdName == identifierString
            K1 == getNextToken(Cursor)
            K2 == getNextToken(K1)
        IN IF K1.CurTok # CH_LPAREN
           THEN SetCursor(K1) /\ Return(VariableExprAST(IdName))
           ELSE IF K2.CurTok # CH_RPAREN
           THEN /\ SetCursor(K2)
                /\ Call([Top EXCEPT !.pc = "Arg", !.IdName = IdName],
                        Frame("ParseExpression", K2))
           ELSE /\ SetCursor(K2)
                /\ Return(CallExprAST(IdName, <<>>))
     /\ UNCHANGED <<input, BinopPrecedence, log, pc>>
  \/ /\ Running("ParseIdentifierExpr", "Arg")
     /\ IF ret.val = nullptr
        THEN Return(nullptr) /\ UNCHANGED <<lexvars, log>>
        ELSE IF CurTok = CH_RPAREN
        THEN /\ LogError("Expected ')' or ',' in argument list")
             /\ Return(nullptr)
             /\ UNCHANGED lexvars
        ELSE LET K == getNextToken(Cursor)
             IN /\ SetCursor(K)
                /\ Call([Top EXCEPT !.Args = Append(Top.Args, ret.val)],
                        Frame("ParseExpression", K))
                /\ UNCHANGED log
     /\ UNCHANGED <<input, BinopPrecedence, pc>>

ParseIdentifierExpr ==
  \/ /\ Running("ParseIdentifierExpr", "start")
     /\ LET IdName == identifierString
            K1 == getNextToken(Cursor)       \* eat identifier
            K2 == getNextToken(K1)           \* eat (
        IN IF K1.CurTok # CH_LPAREN          \* simple variable ref
           THEN SetCursor(K1) /\ Return(VariableExprAST(IdName))
           ELSE IF K2.CurTok # CH_RPAREN
           THEN /\ SetCursor(K2)
                /\ Call([Top EXCEPT !.pc = "Arg", !.IdName = IdName],
                        Frame("ParseExpression", K2))
           ELSE /\ SetCursor(getNextToken(K2))   \* eat the ')'
                /\ Return(CallExprAST(IdName, <<>>))
     /\ UNCHANGED <<input, BinopPrecedence, log, pc>>
  \/ /\ Running("ParseIdentifierExpr", "Arg")
     /\ IF ret.val = nullptr
        THEN Return(nullptr) /\ UNCHANGED <<lexvars, log>>
        ELSE IF CurTok = CH_RPAREN
        THEN /\ LogError("Expected ')' or ',' in argument list")
             /\ Return(nullptr)
             /\ UNCHANGED lexvars
        ELSE LET K == getNextToken(Cursor)
             IN /\ SetCursor(K)
                /\ Call([Top EXCEPT !.Args = Append(Top.Args, ret.val)],
                        Frame("ParseExpression", K))
                /\ UNCHANGED log
     /\ UNCHANGED <<input, BinopPrecedence, pc>>

\* ---------------------------------------------------------------- primary
\* A variant that skips the token it cannot start an expression with.
ParsePrimary_SkipUnknown ==
  \/ /\ Running("ParsePrimary", "start")
     /\ IF CurTok = tok_identifier
        THEN /\ Call([Top EXCEPT !.pc = "return"],
                     Frame("ParseIdentifierExpr", Cursor))
             /\ UNCHANGED <<lexvars, log>>
        ELSE IF CurTok = tok_number
        THEN /\ Call([Top EXCEPT !.pc = "return"],
                     Frame("ParseNumberExpr", Cursor))
             /\ UNCHANGED <<lexvars, log>>
        ELSE IF CurTok = CH_LPAREN
        THEN /\ Call([Top EXCEPT !.pc = "return"],
                     Frame("ParseParenExpr", Cursor))
             /\ UNCHANGED <<lexvars, log>>
        ELSE /\ LogError("unknown token when expecting an expression")
             /\ SetCursor(getNextToken(Cursor))
             /\ Return(nullptr)
     /\ UNCHANGED <<input, BinopPrecedence, pc>>
  \/ /\ Running("ParsePrimary", "return")
     /\ Return(ret.val)
     /\ UNCHANGED <<input, lexvars, BinopPrecedence, log, pc>>

ParsePrimary ==
  \/ /\ Running("ParsePrimary", "start")
     /\ IF CurTok = tok_identifier
        THEN /\ Call([Top EXCEPT !.pc = "return"],
                     Frame("ParseIdentifierExpr", Cursor))
             /\ UNCHANGED log
        ELSE IF CurTok = tok_number
        THEN /\ Call([Top EXCEPT !.pc = "return"],
                     Frame("ParseNumberExpr", Cursor))
             /\ UNCHANGED log
        ELSE IF CurTok = CH_LPAREN
        THEN /\ Call([Top EXCEPT !.pc = "return"],
                     Frame("ParseParenExpr", Cursor))
             /\ UNCHANGED log
        ELSE /\ LogError("unknown token when expecting an expression")
             /\ Return(nullptr)
     /\ UNCHANGED <<input, lexvars, BinopPrecedence, pc>>
  \/ /\ Running("ParsePrimary", "return")
     /\ Return(ret.val)
     /\ UNCHANGED <<input, lexvars, BinopPrecedence, log, pc>>

\* ------------------------------------------------------- GetTokPrecedence
\* BinopPrecedence[c] of std::map: the entry for c, made with value 0 when
\* there is none.  The result is <<value, map after the access>>.
MapIndex(map, c) ==
  IF c \in DOMAIN map THEN <<map[c], map>>
  ELSE <<0, [k \in DOMAIN map \cup {c} |-> IF k = c THEN 0 ELSE map[k]]>>

\* A variant that returns the map's value as it is, 0 for an absent key.
GetTokPrecedence_Raw(tok, map) ==
  IF ~isascii(tok) THEN <<-1, map>> ELSE MapIndex(map, tok)

\* <<precedence of the pending token, map after the call>>
GetTokPrecedence(tok, map) ==
  IF ~isascii(tok) THEN <<-1, map>>
  ELSE LET r == MapIndex(map, tok)
       IN <<IF r[1] <= 0 THEN -1 ELSE r[1], r[2]>>

\* ------------------------------------------------- expression, binoprhs
ParseExpression ==
  \/ /\ Running("ParseExpression", "start")
     /\ Call([Top EXCEPT !.pc = "LHS"], Frame("ParsePrimary", Cursor))
     /\ UNCHANGED <<input, lexvars, BinopPrecedence, log, pc>>
  \/ /\ Running("ParseExpression", "LHS")
     /\ IF ret.val = nullptr
        THEN Return(nullptr)
        ELSE Call([Top EXCEPT !.pc = "return"],
                  [Frame("ParseBinOpRHS", Cursor) EXCEPT
                     !.ExprPrec = 0, !.node = ret.val])
     /\ UNCHANGED <<input, lexvars, BinopPrecedence, log, pc>>
  \/ /\ Running("ParseExpression", "return")
     /\ Return(ret.val)
     /\ UNCHANGED <<input, lexvars, BinopPrecedence, log, pc>>

\* while (true) { int TokPrec = GetTokPrecedence();
\*                if (TokPrec < ExprPrec) return LHS; }
\* One pass of the loop is two steps: the lookup, then the test.  Each pass
\* accesses the map, which the build has to keep, so the loop runs as written.
ParseBinOpRHS ==
  \/ /\ Running("ParseBinOpRHS", "start")
     /\ LET r == GetTokPrecedence(CurTok, BinopPrecedence)
        IN /\ BinopPrecedence' = r[2]
           /\ stack' = [stack EXCEPT ![Depth].TokPrec = r[1],
                                     ![Depth].pc = "test"]
     /\ UNCHANGED <<input, lexvars, ret, log, pc>>
  \/ /\ Running("ParseBinOpRHS", "test")
     /\ Top.TokPrec < Top.ExprPrec
     /\ Return(Top.node)
     /\ UNCHANGED <<input, lexvars, BinopPrecedence, log, pc>>
  \/ /\ Running("ParseBinOpRHS", "test")
     /\ ~(Top.TokPrec < Top.ExprPrec)
     /\ stack' = [stack EXCEPT ![Depth].pc = "start"]
     /\ UNCHANGED <<input, lexvars, BinopPrecedence, ret, log, pc>>

\* ----------------------------------------------------------- declarations
\* while (getNextToken() == tok_identifier) ArgNames.push_back(identifierString);
\* The result is <<cursor after the loop, ArgNames>>.
\* A variant that puts each new name in front of the earlier ones.
RECURSIVE ReadArgNames_Prepend(_, _)
ReadArgNames_Prepend(K, ArgNames) ==
  Let(getNextToken(K), LAMBDA N :
    IF N.CurTok = tok_identifier
    THEN Let(<<N.L.identifierString>> \o ArgNames,
             LAMBDA names : ReadArgNames_Prepend(N, names))
    ELSE <<N, ArgNames>>)

\* A variant that lets a comma stand between two names.
RECURSIVE ReadArgNames_Commas(_, _)
ReadArgNames_Commas(K, ArgNames) ==
  Let(getNextToken(K), LAMBDA N :
    IF N.CurTok = tok_identifier
    THEN Let(Append(ArgNames, N.L.identifierString),
             LAMBDA names : ReadArgNames_Commas(N, names))
    ELSE IF N.CurTok = CH_COMMA THEN ReadArgNames_Commas(N, ArgNames)
    ELSE <<N, ArgNames>>)

RECURSIVE ReadArgNames(_, _)
ReadArgNames(K, ArgNames) ==
  Let(getNextToken(K), LAMBDA N :
    IF N.CurTok = tok_identifier
    THEN Let(Append(ArgNames, N.L.identifierString),
             LAMBDA names : ReadArgNames(N, names))
    ELSE <<N, ArgNames>>)

\* ParsePrototype calls no parse routine, so it is one step.
ParsePrototype ==
  /\ Running("ParsePrototype", "start")
  /\ IF CurTok # tok_identifier
     THEN /\ LogError("Expected function name in prototype")
          /\ Return(nullptr)
          /\ UNCHANGED lexvars
     ELSE LET FnName == identifierString
              K1 == getNextToken(Cursor)
              r == ReadArgNames(K1, <<>>)
          IN IF K1.CurTok # CH_LPAREN
             THEN /\ LogError("Expected '(' in prototype")
                  /\ Return(nullptr)
                  /\ SetCursor(K1)
             ELSE IF r[1].CurTok # CH_RPAREN
             THEN /\ LogError("Expected ')' in prototype")
                  /\ Return(nullptr)
                  /\ SetCursor(r[1])
             ELSE /\ SetCursor(getNextToken(r[1]))     \* eat ')'
                  /\ Return(PrototypeAST(FnName, r[2]))
                  /\ UNCHANGED log
  /\ UNCHANGED <<input, BinopPrecedence, pc>>

\* A variant that builds the function whether or not the body parsed.
DefinitionResult_Partial(Proto, E) == FunctionAST(Proto, E)

\* What ParseDefinition returns once the body's parse has returned E.
DefinitionResult(Proto, E) ==
  IF E # nullptr THEN FunctionAST(Proto, E) ELSE nullptr

ParseDefinition ==
  \/ /\ Running("ParseDefinition", "start")
     /\ LET K == getNextToken(Cursor)        \* eat def
        IN /\ SetCursor(K)
           /\ Call([Top EXCEPT !.pc = "Proto"], Frame("ParsePrototype", K))
     /\ UNCHANGED <<input, BinopPrecedence, log, pc>>
  \/ /\ Running("ParseDefinition", "Proto")
     /\ IF ret.val = nullptr
        THEN Return(nullptr)
        ELSE Call([Top EXCEPT !.pc = "E", !.node = ret.val],
                  Frame("ParseExpression", Cursor))
     /\ UNCHANGED <<input, lexvars, BinopPrecedence, log, pc>>
  \/ /\ Running("ParseDefinition", "E")
     /\ Return(DefinitionResult(Top.node, ret.val))
     /\ UNCHANGED <<input, lexvars, BinopPrecedence, log, pc>>

\* The statement `getNextToken;` of ParseExtern names the function and does
\* not call it: the cursor stays on `extern`.
ParseExtern ==
  \/ /\ Running("ParseExtern", "start")
     /\ Call([Top EXCEPT !.pc = "return"], Frame("ParsePrototype", Cursor))
     /\ UNCHANGED <<input, lexvars, BinopPrecedence, log, pc>>
  \/ /\ Running("ParseExtern", "return")
     /\ Return(ret.val)
     /\ UNCHANGED <<input, lexvars, BinopPrecedence, log, pc>>

ParseTopLevelExpr ==
  \/ /\ Running("ParseTopLevelExpr", "start")
     /\ Call([Top EXCEPT !.pc = "E"], Frame("ParseExpression", Cursor))
     /\ UNCHANGED <<input, lexvars, BinopPrecedence, log, pc>>
  \/ /\ Running("ParseTopLevelExpr", "E")
     /\ IF ret.val # nullptr
        THEN Return(FunctionAST(PrototypeAST(<<>>, <<>>), ret.val))
        ELSE Return(nullptr)
     /\ UNCHANGED <<input, lexvars, BinopPrecedence, log, pc>>

\* ------------------------------------------------------ top-level parsing
\* A variant that skips two tokens.
SkipToken_Twice(K) == getNextToken(getNextToken(K))

\* The else branch of the three handlers: skip a token for error recovery.
SkipToken(K) == getNextToken(K)

\* if (Parse()) fprintf(stderr, msg); else getNextToken();
Handle(fn, parse, msg) ==
  \/ /\ Running(fn, "start")
     /\ Call([Top EXCEPT !.pc = "if"], Frame(parse, Cursor))
     /\ UNCHANGED <<input, lexvars, BinopPrecedence, log, pc>>
  \/ /\ Running(fn, "if")
     /\ IF ret.val # nullptr
        THEN log' = Append(log, msg) /\ UNCHANGED lexvars
        ELSE SetCursor(SkipToken(Cursor)) /\ UNCHANGED log
     /\ Return(nullptr)
     /\ UNCHANGED <<input, BinopPrecedence, pc>>

HandleDefinition ==
  Handle("HandleDefinition", "ParseDefinition", "Parsed a function definition.")

HandleExtern ==
  Handle("HandleExtern", "ParseExtern", "Parsed an extern.")

HandleTopLevelExpression ==
  Handle("HandleTopLevelExpression", "ParseTopLevelExpr", "Parsed a top-level expr")

\* One pass of MainLoop's while (true): the switch on CurTok.
MainLoop ==
  /\ Running("MainLoop", "start")
  /\ \/ /\ CurTok = tok_eof
        /\ stack' = <<>>
        /\ ret' = NoRet
        /\ pc' = "done"
        /\ UNCHANGED lexvars
     \/ /\ CurTok = CH_SEMI              \* ignore top-level semicolons
        /\ SetCursor(getNextToken(Cursor))
        /\ UNCHANGED <<stack, ret, pc>>
     \/ /\ CurTok = tok_def
        /\ Call(Top, Frame("HandleDefinition", Cursor))
        /\ UNCHANGED <<lexvars, pc>>
     \/ /\ CurTok = tok_extern
        /\ Call(Top, Frame("HandleExtern", Cursor))
        /\ UNCHANGED <<lexvars, pc>>
     \/ /\ CurTok \notin {tok_eof, CH_SEMI, tok_def, tok_extern}
        /\ Call(Top, Frame("HandleTopLevelExpression", Cursor))
        /\ UNCHANGED <<lexvars, pc>>
  /\ UNCHANGED <<input, BinopPrecedence, log>>

\* main(): install the standard binary operators.
StandardOperators ==
  [c \in {CH_LT, CH_PLUS, CH_MINUS, CH_STAR} |->
     IF c = CH_LT THEN 10 ELSE IF c = CH_PLUS THEN 20
     ELSE IF c = CH_MINUS THEN 30 ELSE 40]

main ==
  /\ pc = "main"
  /\ BinopPrecedence' = StandardOperators
  /\ pc' = "prime"
  /\ UNCHANGED <<input, lexvars, stack, ret, log>>

\* The source's main ends after installing the operators (its TODO).  The
\* driver is run as the parser's entry points require: the cursor is primed
\* by one getNextToken(), then MainLoop() is entered.
Prime ==
  /\ pc = "prime"
  /\ LET K == getNextToken(Cursor)
     IN /\ SetCursor(K)
        /\ stack' = <<Frame("MainLoop", K)>>
  /\ pc' = "run"
  /\ UNCHANGED <<input, BinopPrecedence, ret, log>>

\* The lexer run alone: getNextToken() until it returns tok_eof.
Lex ==
  /\ pc = "lex"
  /\ LET K == getNextToken(Cursor)
     IN /\ SetCursor(K)
        /\ pc' = IF K.CurTok = tok_eof THEN "lexed" ELSE "lex"
  /\ UNCHANGED <<input, BinopPrecedence, stack, ret, log>>

\* Where the first tok_eof stands in a token history, 0 when there is none.
FirstEof(ts) ==
  IF \E i \in 1..Len(ts) : ts[i] = <<tok_eof>>
  THEN CHOOSE i \in 1..Len(ts) :
         ts[i] = <<tok_eof>> /\ \A j \in 1..(i - 1) : ts[j] # <<tok_eof>>
  ELSE 0

\* gettok() called again after it has returned tok_eof, at most MaxEofCalls
\* times.
LexAgain ==
  /\ pc \in {"lexed", "again"}
  /\ Len(toks) < FirstEof(toks) + MaxEofCalls
  /\ SetCursor(getNextToken(Cursor))
  /\ pc' = "again"
  /\ UNCHANGED <<input, BinopPrecedence, stack, ret, log>>

\* The stream is put back to its start after a whole run; gettok's static
\* last_char is out of the caller's reach and stays as the run left it.
Rewind ==
  /\ pc = "lexed"
  /\ pos' = 0
  /\ pc' = "lex2"
  /\ UNCHANGED <<input, reads, last_char, identifierString, NumVal, CurTok,
                 toks, BinopPrecedence, stack, ret, log>>

\* The second run over the rewound stream: gettok() until tok_eof.
Relex ==
  /\ pc = "lex2"
  /\ LET K == getNextToken(Cursor)
     IN /\ SetCursor(K)
        /\ pc' = IF K.CurTok = tok_eof THEN "lexed2" ELSE "lex2"
  /\ UNCHANGED <<input, BinopPrecedence, stack, ret, log>>

\* ----------------------------------------------------------------- inputs
RECURSIVE Flatten(_)
Flatten(ss) == IF ss = <<>> THEN <<>> ELSE Head(ss) \o Flatten(Tail(ss))

SeqsUpTo(S, n) == UNION {[1..k -> S] : k \in 0..n}

\* Lexemes: def extern f a 1 ( ) , ; + *
Lexemes ==
  {STR_def, STR_extern, <<102>>, <<97>>, <<49>>, <<CH_LPAREN>>, <<CH_RPAREN>>,
   <<CH_COMMA>>, <<CH_SEMI>>, <<CH_PLUS>>, <<CH_STAR>>}

RECURSIVE Join(_, _)
Join(ss, sep) ==
  IF Len(ss) <= 1 THEN Flatten(ss) ELSE Head(ss) \o sep \o Join(Tail(ss), sep)

\* Every sequence of at most MaxToks lexemes, a space between two.
TokInputs == {Join(ls, <<CH_SPACE>>) : ls \in SeqsUpTo(Lexemes, MaxToks)}

\* Primaries 1, 2, x and the operator characters of the table.
Primaries == {<<49>>, <<50>>, <<120>>}
Operators == {<<CH_LT>>, <<CH_PLUS>>, <<CH_MINUS>>, <<CH_STAR>>}

\* Operator chains  p op p ... op p  with 1..MaxOps operators.
ExprInputs ==
  {p \o Flatten(rest) :
     p \in Primaries,
     rest \in UNION {[1..k -> {o \o q : o \in Operators, q \in Primaries}] :
                       k \in 1..MaxOps}}

\* Calls  f(e, ..., e)  with 1..MaxArgs arguments 1, x or 1+2.
Arguments == {<<49>>, <<120>>, <<49, CH_PLUS, 50>>}
CallInputs ==
  {<<102, CH_LPAREN>> \o Join(as, <<CH_COMMA, CH_SPACE>>) \o <<CH_RPAREN>> :
     as \in UNION {[1..k -> Arguments] : k \in 1..MaxArgs}}

\* def / extern, a prototype  f(p ... p)  with 0..MaxParams parameters a or b
\* (a comma after each, in the malformed variant), and a body 1 or none.
Params == {<<97>>, <<98>>}
ProtoInputs ==
  {kw \o <<CH_SPACE, 102, CH_LPAREN>> \o Join(ps, sep) \o <<CH_RPAREN>> \o body :
     kw \in {STR_def, STR_extern},
     ps \in SeqsUpTo(Params, MaxParams),
     sep \in {<<CH_SPACE>>, <<CH_COMMA>>},
     body \in {<<>>, <<CH_SPACE, 49>>}}

\* Calls with no argument,  f()  and  foo1() , alone or after a ( , and
\* followed by nothing, a ; , a ) or an identifier.
EmptyCallInputs ==
  {pre \o name \o <<CH_LPAREN, CH_RPAREN>> \o post :
     pre \in {<<>>, <<CH_LPAREN>>},
     name \in {<<102>>, <<102, 111, 111, 49>>},
     post \in {<<>>, <<CH_SEMI>>, <<CH_RPAREN>>, <<CH_SPACE, 120>>}}

ParseInputs ==
  TokInputs \cup ExprInputs \cup CallInputs \cup ProtoInputs
    \cup EmptyCallInputs

\* Characters  LF CR space # + . 1 a  and every string of at most MaxChars.
LexChars == {CH_LF, CH_CR, CH_SPACE, CH_HASH, CH_PLUS, CH_DOT, 49, 97}
LexInputs == SeqsUpTo(LexChars, MaxChars)

\* Words  def Def def1 de extern externs foo1 ; at most MaxWords of them
\* with nothing, a space or a + between two.
Words ==
  {STR_def, <<68, 101, 102>>, STR_def \o <<49>>, <<100, 101>>, STR_extern,
   STR_extern \o <<115>>, <<102, 111, 111, 49>>}
WordInputs ==
  {Join(ws, sep) : ws \in SeqsUpTo(Words, MaxWords),
                   sep \in {<<>>, <<CH_SPACE>>, <<CH_PLUS>>}}

\* Number lexemes: every string of 1..MaxNumLen characters over 0 1 2 3 . ,
\* followed by nothing or a + .
NumberInputs ==
  {lexeme \o post :
     lexeme \in SeqsUpTo({48, 49, 50, 51, CH_DOT}, MaxNumLen) \ {<<>>},
     post \in {<<>>, <<CH_PLUS>>}}

\* --------------------------------------------------------- specifications
\* The state before main: the statics as the source initialises them.
Statics ==
  /\ pos = 0
  /\ reads = 0
  /\ last_char = CH_SPACE
  /\ identifierString = <<>>
  /\ NumVal = <<0, 0>>
  /\ CurTok = 0
  /\ toks = <<>>
  /\ BinopPrecedence = <<>>
  /\ stack = <<>>
  /\ ret = NoRet
  /\ log = <<>>

Init == input \in ParseInputs /\ Statics /\ pc = "main"

Next ==
  \/ main
  \/ Prime
  \/ MainLoop
  \/ HandleDefinition
  \/ HandleExtern
  \/ HandleTopLevelExpression
  \/ ParseDefinition
  \/ ParseExtern
  \/ ParseTopLevelExpr
  \/ ParsePrototype
  \/ ParseExpression
  \/ ParseBinOpRHS
  \/ ParsePrimary
  \/ ParseNumberExpr
  \/ ParseParenExpr
  \/ ParseIdentifierExpr

Spec == Init /\ [][Next]_vars

\* The program is one thread that runs whenever it can take a step.
FairSpec == Spec /\ WF_vars(Next)

\* The lexer alone over every short character string.
InitLex ==
  /\ input \in LexInputs \cup WordInputs \cup NumberInputs
  /\ Statics
  /\ pc = "lex"
NextLex ==
  \/ Lex
  \/ LexAgain
  \/ Rewind
  \/ Relex
SpecLex == InitLex /\ [][NextLex]_vars

\* ------------------------------------------------------------ references
\* The token stream of inp: what successive gettok() calls return from the
\* start of inp, up to and including the first tok_eof.
RECURSIVE LexFrom(_, _)
LexFrom(L, acc) ==
  Let(gettok(L), LAMBDA r :
    Let(Append(acc, Token(r[1], r[2])), LAMBDA ts :
      IF r[1] = tok_eof THEN ts ELSE LexFrom(r[2], ts)))

TokenStream(inp) == LexFrom(LexInit(inp), <<>>)

\* The n-th token of a stream; tok_eof from its end on.
TokAt(ts, n) == IF n \in 1..Len(ts) THEN ts[n] ELSE <<tok_eof>>

\* The node of a one-character primary: a digit or a letter.
PrimaryAST(p) ==
  IF isdigit(p[1]) THEN NumberExprAST(<<p[1] - 48, 0>>) ELSE VariableExprAST(p)

\* ================================================================= claims

\* C1: every pass of ParseBinOpRHS's loop that does not take the exit
\* (TokPrec < ExprPrec) consumes the operator token, so the loop reaches its
\* exit on every token stream.
C1_LoopConsumesOperator ==
  [][(Running("ParseBinOpRHS", "test") /\ ~(Top.TokPrec < Top.ExprPrec))
       => Len(toks') > Len(toks)]_vars

\* C2: for every finite input the driver, started with a primed cursor,
\* eventually reaches end-of-input and stops.
C2_DriverStops == <>(pc = "done")

\* The input is  a op1 b op2 c  and ParseExpression has returned `tree` for
\* the expression that starts at its first token.
Parsed3(a, op1, b, op2, c, tree) ==
  /\ input = a \o op1 \o b \o op2 \o c
  /\ ret = [from |-> "ParseExpression", val |-> tree, at |-> 1]

Chain3(same) ==
  \E a \in Primaries, b \in Primaries, c \in Primaries,
     op1 \in Operators, op2 \in Operators :
       /\ (StandardOperators[op1[1]] = StandardOperators[op2[1]]) = same
       /\ input = a \o op1 \o b \o op2 \o c

\* C3: parsing  a op1 b op2 c  yields (op1, a, (op2, b, c)) when op2 binds
\* tighter than op1 and (op2, (op1, a, b), c) when op1 binds tighter.
C3_Climbed ==
  \E a \in Primaries, b \in Primaries, c \in Primaries,
     op1 \in Operators, op2 \in Operators :
       \/ /\ StandardOperators[op2[1]] > StandardOperators[op1[1]]
          /\ Parsed3(a, op1, b, op2, c,
                     BinaryExprAST(op1[1], PrimaryAST(a),
                       BinaryExprAST(op2[1], PrimaryAST(b), PrimaryAST(c))))
       \/ /\ StandardOperators[op1[1]] > StandardOperators[op2[1]]
          /\ Parsed3(a, op1, b, op2, c,
                     BinaryExprAST(op2[1],
                       BinaryExprAST(op1[1], PrimaryAST(a), PrimaryAST(b)),
                       PrimaryAST(c)))

C3_PrecedenceClimbing == Chain3(FALSE) => <>C3_Climbed

\* C4: operators of equal precedence associate to the left:  a op b op c
\* yields (op, (op, a, b), c).
C4_LeftNested ==
  \E a \in Primaries, b \in Primaries, c \in Primaries,
     op1 \in Operators, op2 \in Operators :
       /\ StandardOperators[op1[1]] = StandardOperators[op2[1]]
       /\ Parsed3(a, op1, b, op2, c,
                  BinaryExprAST(op2[1],
                    BinaryExprAST(op1[1], PrimaryAST(a), PrimaryAST(b)),
                    PrimaryAST(c)))

C4_LeftAssociative == Chain3(TRUE) => <>C4_LeftNested

\* C5: an identifier followed by ( , n >= 1 comma-separated expressions and )
\* parses to CallExprAST(callee, [e1..en]), the arguments in source order.
\* Stated for arguments that are primaries: when ParseIdentifierExpr returns
\* for  f(e1, .., en)  it returns that call.
C5_CallArguments ==
  \A as \in UNION {[1..k -> Primaries] : k \in 1..MaxArgs} :
    (/\ input = <<102, CH_LPAREN>> \o Join(as, <<CH_COMMA, CH_SPACE>>)
                  \o <<CH_RPAREN>>
     /\ ret.from = "ParseIdentifierExpr"
     /\ ret.at = 1)
    => ret.val = CallExprAST(<<102>>, [i \in 1..Len(as) |-> PrimaryAST(as[i])])

\* C6: ParseExtern, entered on `extern` followed by a well-formed prototype
\* f(p1 .. pk), returns PrototypeAST(f, [p1..pk]) with the cursor on the
\* token after ), and the driver then reports an extern.
C6_ExternPrototype ==
  \A ps \in SeqsUpTo(Params, MaxParams) :
    input = STR_extern \o <<CH_SPACE, 102, CH_LPAREN>> \o Join(ps, <<CH_SPACE>>)
              \o <<CH_RPAREN>>
    => /\ ret.from = "ParseExtern"
          => /\ ret.val = PrototypeAST(<<102>>, ps)
             /\ Len(toks) = Len(ps) + 5
             /\ CurTok = tok_eof
       /\ ret.from = "HandleExtern" => log = <<"Parsed an extern.">>

\* How many identifier tokens follow one another in ts from its n-th token.
RECURSIVE IdentifierRun(_, _)
IdentifierRun(ts, n) ==
  IF TokAt(ts, n)[1] = tok_identifier THEN 1 + IdentifierRun(ts, n + 1) ELSE 0

\* C7: ParsePrototype, entered on an identifier followed by ( , k >= 0
\* identifier tokens and ), returns PrototypeAST(name, [p1..pk]) with the
\* names in source order and duplicates kept, and leaves the cursor on the
\* token after the ).
C7_PrototypeParameters ==
  ret.from = "ParsePrototype" =>
    LET ts == TokenStream(input)
        i == ret.at
        k == IdentifierRun(ts, i + 2)
    IN (/\ TokAt(ts, i)[1] = tok_identifier
        /\ TokAt(ts, i + 1) = <<CH_LPAREN>>
        /\ TokAt(ts, i + 2 + k) = <<CH_RPAREN>>)
       => /\ ret.val = PrototypeAST(TokAt(ts, i)[2],
                                    [j \in 1..k |-> TokAt(ts, i + 1 + j)[2]])
          /\ Len(toks) = i + k + 3
          /\ CurTok = TokAt(ts, i + k + 3)[1]

\* def f(a a) 1 : the prototype has returned with both names, cursor on 1.
C7_Witness ==
  /\ input = STR_def \o <<CH_SPACE, 102, CH_LPAREN, 97, CH_SPACE, 97,
                          CH_RPAREN, CH_SPACE, 49>>
  /\ ret = [from |-> "ParsePrototype", at |-> 2,
            val |-> PrototypeAST(<<102>>, << <<97>>, <<97>> >>)]
  /\ CurTok = tok_number

Handlers == {"HandleDefinition", "HandleExtern", "HandleTopLevelExpression"}

\* C8: when ParseDefinition, ParseExtern or ParseTopLevelExpr returns failure
\* to its handler, the handler reads exactly one token and returns to
\* MainLoop; when the parse succeeded it reads none.  On the input `def`
\* alone the parse fails, and once the driver has stopped it has read `def`,
\* the end-of-input that ParseDefinition moved to, and one token more.
C8_OneSkipPerFailure ==
  [][/\ (pc = "run" /\ Depth > 0 /\ Top.fn \in Handlers /\ Top.pc = "if")
        => /\ Len(toks') = Len(toks) + (IF ret.val = nullptr THEN 1 ELSE 0)
           /\ Len(stack') = 1
           /\ stack'[1].fn = "MainLoop"
     /\ (input = STR_def /\ pc' = "done")
        => /\ log' = <<"Expected function name in prototype">>
           /\ toks' = << <<tok_def>>, <<tok_eof>>, <<tok_eof>> >>]_vars

\* The driver has stopped on the input `def` after the failed definition.
C8_Witness ==
  /\ input = STR_def
  /\ pc = "done"
  /\ log = <<"Expected function name in prototype">>
  /\ Len(toks) = 3

\* A node all of whose children are nodes, down to the leaves.
RECURSIVE Complete(_)
Complete(t) ==
  /\ t # nullptr
  /\ CASE t[1] = "Binary" -> Complete(t[3]) /\ Complete(t[4])
       [] t[1] = "Call" -> \A i \in 1..Len(t[3]) : Complete(t[3][i])
       [] t[1] = "Function" -> Complete(t[2]) /\ Complete(t[3])
       [] OTHER -> TRUE

\* The routines that call another parse routine and read its result.
Composite ==
  {"ParseDefinition", "ParseExtern", "ParseTopLevelExpr", "ParseExpression",
   "ParsePrimary", "ParseParenExpr", "ParseIdentifierExpr"}

\* C9: a parse routine that receives "no result" from a sub-parse returns "no
\* result" itself at once, and every node a routine returns or holds is
\* complete: no node is built around a child that failed.
C9_NoPartialNode ==
  [][/\ (/\ pc = "run" /\ Depth > 0
         /\ Top.fn \in Composite /\ Top.pc # "start"
         /\ ret.from # "" /\ ret.val = nullptr)
        => /\ stack' = SubSeq(stack, 1, Depth - 1)
           /\ ret'.from = Top.fn
           /\ ret'.val = nullptr
     /\ ret'.val # nullptr => Complete(ret'.val)
     /\ \A d \in 1..Len(stack') :
          /\ stack'[d].node # nullptr => Complete(stack'[d].node)
          /\ \A i \in 1..Len(stack'[d].Args) : Complete(stack'[d].Args[i])]_vars

\* def f() : the prototype parsed, the body did not, and ParseDefinition
\* returned no result.
C9_Witness ==
  /\ input = STR_def \o <<CH_SPACE, 102, CH_LPAREN, CH_RPAREN>>
  /\ ret = [from |-> "ParseDefinition", at |-> 1, val |-> nullptr]
  /\ log = <<"unknown token when expecting an expression">>

\* inp with each comment removed: the # and what follows it up to, and not
\* including, the next '\n' or '\r' (or up to the end of inp).
RECURSIVE StripComments(_, _)
StripComments(inp, comment) ==
  IF inp = <<>> THEN <<>>
  ELSE Let(Tail(inp), LAMBDA rest :
    IF comment
    THEN IF Head(inp) \in {CH_LF, CH_CR}
         THEN <<Head(inp)>> \o StripComments(rest, FALSE)
         ELSE StripComments(rest, TRUE)
    ELSE IF Head(inp) = CH_HASH THEN StripComments(rest, TRUE)
    ELSE <<Head(inp)>> \o StripComments(rest, FALSE))

\* C10: a comment yields no token: the tokens of an input are the tokens of
\* the input with its comments removed, the final end-of-input included.
C10_CommentsYieldNoToken ==
  pc = "lexed" => toks = TokenStream(StripComments(input, FALSE))

\* #1<LF>a : the 1 of the comment yields no token, the a after it does.
C10_Witness ==
  /\ input = <<CH_HASH, 49, CH_LF, 97>>
  /\ pc = "lexed"
  /\ toks = << <<tok_identifier, <<97>> >>, <<tok_eof>> >>

\* What gettok() can return: a Token enumerator or a character code.
TokenCodes == {tok_eof, tok_def, tok_extern, tok_identifier, tok_number}
                \cup (0..255)

\* This step is one call of gettok().
GettokCall == Len(toks') = Len(toks) + 1

\* C11: a gettok() call entered at end of input (last_char = EOF, or tok_eof
\* already returned) returns tok_eof without calling getchar(), and leaves
\* the stream position and the lookahead as they were; every call returns a
\* token, there is no failure outcome.
C11_EofIsSticky ==
  [][GettokCall =>
       /\ CurTok' \in TokenCodes
       /\ (last_char = EOF \/ (toks # <<>> /\ toks[Len(toks)] = <<tok_eof>>))
            => /\ CurTok' = tok_eof
               /\ reads' = reads
               /\ pos' = pos
               /\ last_char' = EOF]_vars

\* On `a`, gettok() has been called MaxEofCalls more times after tok_eof.
C11_Witness ==
  /\ input = <<97>>
  /\ pc = "again"
  /\ toks = << <<tok_identifier, <<97>> >>, <<tok_eof>>, <<tok_eof>>,
               <<tok_eof>> >>
  /\ pos = 1
  /\ reads = 2

\* The character at index i of inp, EOF past its end.
CharAt(inp, i) == IF i \in 1..Len(inp) THEN inp[i] ELSE EOF

\* The first index from i on that holds no whitespace (Len(inp) + 1 at most).
NextNonSpace(inp, i) ==
  CHOOSE j \in i..(Len(inp) + 1) :
    /\ ~isspace(CharAt(inp, j))
    /\ \A k \in i..(j - 1) : isspace(inp[k])

\* The end of the longest run from s on whose characters all satisfy P.
RunEnd(inp, s, P(_)) ==
  CHOOSE e \in s..Len(inp) :
    /\ \A k \in s..e : P(inp[k])
    /\ ~P(CharAt(inp, e + 1))

\* In the first run over the stream: where gettok()'s lookahead stands in
\* the input, and where the token of the next call starts.
LookaheadAt == IF last_char = EOF THEN Len(input) + 1 ELSE pos
TokenStart ==
  IF isspace(last_char) THEN NextNonSpace(input, pos + 1) ELSE LookaheadAt

\* C12: a gettok() call whose token starts at a letter returns the longest
\* run of letters and digits from there as one token with exactly that
\* text: tok_def when the text is exactly `def`, tok_extern when it is
\* exactly `extern`, tok_identifier otherwise.
C12_IdentifierOrKeyword ==
  [][(pc = "lex" /\ GettokCall /\ isalpha(CharAt(input, TokenStart))) =>
       LET text == SubSeq(input, TokenStart,
                          RunEnd(input, TokenStart, isalnum))
           tok  == IF text = STR_def THEN tok_def
                   ELSE IF text = STR_extern THEN tok_extern
                   ELSE tok_identifier
       IN /\ CurTok' = tok
          /\ identifierString' = text
          /\ toks' = Append(toks, IF tok = tok_identifier
                                  THEN <<tok, text>> ELSE <<tok>>)]_vars

\* `def1+externs` lexes to the identifiers def1 and externs around a +.
C12_Witness ==
  /\ input = STR_def \o <<49, CH_PLUS>> \o STR_extern \o <<115>>
  /\ pc = "lexed"
  /\ toks = << <<tok_identifier, STR_def \o <<49>> >>, <<CH_PLUS>>,
               <<tok_identifier, STR_extern \o <<115>> >>, <<tok_eof>> >>

\* C13: ParseIdentifierExpr, entered on an identifier followed by ( and ),
\* returns CallExprAST(callee, []) with the identifier's text as callee, and
\* has consumed the identifier and both parentheses: the cursor is on the
\* token after the ).
C13_EmptyCall ==
  ret.from = "ParseIdentifierExpr" =>
    LET ts == TokenStream(input)
        i == ret.at
    IN (/\ TokAt(ts, i)[1] = tok_identifier
        /\ TokAt(ts, i + 1) = <<CH_LPAREN>>
        /\ TokAt(ts, i + 2) = <<CH_RPAREN>>)
       => /\ ret.val = CallExprAST(TokAt(ts, i)[2], <<>>)
          /\ Len(toks) = i + 3
          /\ toks = SubSeq(ts, 1, i + 3)
          /\ CurTok = TokAt(ts, i + 3)[1]

\* f ( ) : the call has returned with no arguments, cursor on end-of-input.
C13_Witness ==
  /\ input = <<102, CH_SPACE, CH_LPAREN, CH_SPACE, CH_RPAREN>>
  /\ ret = [from |-> "ParseIdentifierExpr", at |-> 1,
            val |-> CallExprAST(<<102>>, <<>>)]
  /\ CurTok = tok_eof
  /\ toks = << <<tok_identifier, <<102>> >>, <<CH_LPAREN>>, <<CH_RPAREN>>,
               <<tok_eof>> >>

\* C14: ParseParenExpr, entered on ( , consumes it and calls ParseExpression
\* on the token after it; when that returns a node and the current token is
\* ) , it consumes the ) and returns that very node; when the current token
\* is anything else, or the inner parse failed, it returns no node and
\* consumes nothing more.
C14_ParenExpr ==
  [][/\ Running("ParseParenExpr", "start") =>
          /\ CurTok = CH_LPAREN
          /\ Len(toks') = Len(toks) + 1
          /\ Top' = Frame("ParseExpression", Cursor')
     /\ Running("ParseParenExpr", "V") =>
          /\ ret.from = "ParseExpression"
          /\ ret'.from = "ParseParenExpr"
          /\ IF ret.val # nullptr /\ CurTok = CH_RPAREN
             THEN ret'.val = ret.val /\ Len(toks') = Len(toks) + 1
             ELSE ret'.val = nullptr /\ toks' = toks]_vars

\* ( 1 ) : ParseParenExpr has returned the number 1 itself, cursor past ).
C14_Witness ==
  /\ input = <<CH_LPAREN, CH_SPACE, 49, CH_SPACE, CH_RPAREN>>
  /\ ret = [from |-> "ParseParenExpr", at |-> 1,
            val |-> NumberExprAST(<<1, 0>>)]
  /\ toks = << <<CH_LPAREN>>, <<tok_number, <<1, 0>> >>, <<CH_RPAREN>>,
               <<tok_eof>> >>

\* C15: the precedence lookup returns 10 for < , 20 for + , 30 for - , 40
\* for * , and -1 for every other current token: end-of-input, a keyword,
\* an identifier, a number, punctuation, a character with no entry.
C15_TokPrecedence ==
  [][Running("ParseBinOpRHS", "start") =>
       stack'[Depth].TokPrec =
         CASE CurTok = CH_LT -> 10
           [] CurTok = CH_PLUS -> 20
           [] CurTok = CH_MINUS -> 30
           [] CurTok = CH_STAR -> 40
           [] OTHER -> -1]_vars

\* 1 ; : the lookup on ; has answered -1 and left a 0 entry for ; in the
\* map.
C15_Witness ==
  /\ input = <<49, CH_SPACE, CH_SEMI>>
  /\ Running("ParseBinOpRHS", "test")
  /\ CurTok = CH_SEMI
  /\ Top.TokPrec = -1
  /\ CH_SEMI \in DOMAIN BinopPrecedence

\* C16: two runs of the lexer over the same stream, each from the start of
\* the stream to tok_eof, return the same token sequence: nothing the first
\* run leaves behind changes the second.
C16_RunsAgree ==
  pc = "lexed2" =>
    SubSeq(toks, FirstEof(toks) + 1, Len(toks))
      = SubSeq(toks, 1, FirstEof(toks))

\* The characters of a number lexeme.
IsNumberChar(c) == isdigit(c) \/ c = CH_DOT

\* The number a string of digits denotes, the empty one 0.
RECURSIVE DigitsValue(_)
DigitsValue(ds) ==
  IF ds = <<>> THEN 0
  ELSE 10 * DigitsValue(SubSeq(ds, 1, Len(ds) - 1)) + (ds[Len(ds)] - 48)

RECURSIVE Pow10(_)
Pow10(k) == IF k = 0 THEN 1 ELSE 10 * Pow10(k - 1)

Dots(lexeme) == Len(SelectSeq(lexeme, LAMBDA c : c = CH_DOT))

\* The decimal value of a lexeme with at most one dot, as <<m, j>> for
\* m / 10^j: its digits read as one integer, and the number of digits that
\* stand after the dot.
DecimalValue(lexeme) ==
  LET dot == IF Dots(lexeme) = 0 THEN Len(lexeme) + 1
             ELSE CHOOSE i \in 1..Len(lexeme) : lexeme[i] = CH_DOT
  IN <<DigitsValue(SelectSeq(lexeme, isdigit)),
       IF Dots(lexeme) = 0 THEN 0 ELSE Len(lexeme) - dot>>

\* Do <<n, k>> and <<m, j>> stand for the same number, n / 10^k = m / 10^j?
SameValue(a, b) ==
  LET K == IF a[2] > b[2] THEN a[2] ELSE b[2]
  IN a[1] * Pow10(K - a[2]) = b[1] * Pow10(K - b[2])

\* C17: a gettok() call whose token starts at a digit or a dot returns the
\* longest run of digits and dots from there as exactly one tok_number (the
\* lookahead is left on the character after the run), whatever the number of
\* dots; when the run has a digit and at most one dot, NumVal is its decimal
\* value.
C17_NumberLexeme ==
  [][(pc = "lex" /\ GettokCall /\ IsNumberChar(CharAt(input, TokenStart))) =>
       LET e == RunEnd(input, TokenStart, IsNumberChar)
           lexeme == SubSeq(input, TokenStart, e)
       IN /\ CurTok' = tok_number
          /\ toks' = Append(toks, <<tok_number, NumVal'>>)
          /\ last_char' = CharAt(input, e + 1)
          /\ pos' = IF e < Len(input) THEN e + 1 ELSE e
          /\ (Dots(lexeme) <= 1 /\ SelectSeq(lexeme, isdigit) # <<>>)
               => SameValue(NumVal', DecimalValue(lexeme))]_vars

\* `10.30+` : one number token of value 10.3 (103 / 10), then the + .
C17_Witness ==
  /\ input = <<49, 48, CH_DOT, 51, 48, CH_PLUS>>
  /\ pc = "lexed"
  /\ toks = << <<tok_number, <<103, 1>> >>, <<CH_PLUS>>, <<tok_eof>> >>

\* The first index from i on that holds '\n' or '\r' (Len(inp) + 1 when
\* there is none).
LineEnd(inp, i) ==
  CHOOSE k \in i..(Len(inp) + 1) :
    /\ CharAt(inp, k) \in {CH_LF, CH_CR, EOF}
    /\ \A j \in i..(k - 1) : inp[j] \notin {CH_LF, CH_CR}

\* The first index from i on that is outside whitespace and comments.
RECURSIVE SkipBlanks(_, _)
SkipBlanks(inp, i) ==
  Let(NextNonSpace(inp, i), LAMBDA j :
    IF CharAt(inp, j) = CH_HASH THEN SkipBlanks(inp, LineEnd(inp, j + 1))
    ELSE j)

\* In the first run: the index of the first and of the last character of
\* the token the next gettok() call returns (Len(input) + 1 for tok_eof).
TokenBegin ==
  SkipBlanks(input, IF isspace(last_char) THEN pos + 1 ELSE LookaheadAt)
TokenEnd ==
  Let(TokenBegin, LAMBDA s :
    IF isalpha(CharAt(input, s)) THEN RunEnd(input, s, isalnum)
    ELSE IF IsNumberChar(CharAt(input, s)) THEN RunEnd(input, s, IsNumberChar)
    ELSE s)

\* C18: after every gettok() call that returns a token other than tok_eof,
\* getchar() has been called exactly once past the token's last character:
\* the lookahead is the character after the token (EOF when the token ends
\* the input).  Every getchar() call reads the next unread character, none is
\* read twice or put back, and the one call that meets the end returns EOF.
C18_SingleLookahead ==
  [][(pc = "lex" /\ GettokCall) =>
       /\ pos' >= pos
       /\ reads' - reads =
            (pos' - pos) + (IF last_char' = EOF /\ last_char # EOF THEN 1 ELSE 0)
       /\ (CurTok' = tok_eof) = (TokenBegin = Len(input) + 1)
       /\ CurTok' # tok_eof =>
            /\ reads' = TokenEnd + 1
            /\ last_char' = CharAt(input, TokenEnd + 1)
            /\ pos' = IF TokenEnd < Len(input) THEN TokenEnd + 1
                      ELSE Len(input)]_vars

\* `a+ 1` : after the + the lookahead is the blank, three characters read.
C18_Witness ==
  /\ input = <<97, CH_PLUS, CH_SPACE, 49>>
  /\ pc = "lex"
  /\ toks = << <<tok_identifier, <<97>> >>, <<CH_PLUS>> >>
  /\ last_char = CH_SPACE
  /\ pos = 3
  /\ reads = 3

\* C19: ParsePrimary, entered on a token that is not a number, an identifier
\* or ( , returns no node at once and reads no token: the cursor and the
\* lexer are as they were.  Entered on one of those three it does not fail
\* at that point: it calls the routine for that token.
C19_PrimaryFails ==
  [][Running("ParsePrimary", "start") =>
       IF CurTok \notin {tok_number, tok_identifier, CH_LPAREN}
       THEN /\ ret' = [from |-> "ParsePrimary", val |-> nullptr,
                       at |-> Len(toks)]
            /\ stack' = SubSeq(stack, 1, Depth - 1)
            /\ lexvars' = lexvars
            /\ log' = Append(log, "unknown token when expecting an expression")
       ELSE /\ Len(stack') = Depth + 1
            /\ stack'[Depth + 1].fn \in
                 {"ParseNumberExpr", "ParseIdentifierExpr", "ParseParenExpr"}
            /\ ret' = NoRet
            /\ log' = log]_vars

\* ) 1 : ParsePrimary has failed on the ) , which is still the current
\* token.
C19_Witness ==
  /\ input = <<CH_RPAREN, CH_SPACE, 49>>
  /\ ret = [from |-> "ParsePrimary", val |-> nullptr, at |-> 1]
  /\ CurTok = CH_RPAREN
  /\ toks = << <<CH_RPAREN>> >>

\* C20: ParsePrototype returns no prototype in exactly three cases: (1) the
\* token it is entered on is not an identifier; (2) the token after the name
\* is not ( ; (3) the first token after the ( that is not an identifier is
\* not ) .  In case (1) it reads no token.
C20_PrototypeFails ==
  ret.from = "ParsePrototype" =>
    LET ts == TokenStream(input)
        i == ret.at
        NoName == TokAt(ts, i)[1] # tok_identifier
        NoOpen == ~NoName /\ TokAt(ts, i + 1) # <<CH_LPAREN>>
        NoClose == /\ ~NoName /\ ~NoOpen
                   /\ TokAt(ts, i + 2 + IdentifierRun(ts, i + 2))
                        # <<CH_RPAREN>>
    IN /\ (ret.val = nullptr) = (NoName \/ NoOpen \/ NoClose)
       /\ NoName => toks = SubSeq(ts, 1, i) /\ CurTok = TokAt(ts, i)[1]

\* def f(a,b) : the prototype has failed on the comma after a.
C20_Witness ==
  /\ input = STR_def \o <<CH_SPACE, 102, CH_LPAREN, 97, CH_COMMA, 98,
                          CH_RPAREN>>
  /\ ret = [from |-> "ParsePrototype", val |-> nullptr, at |-> 2]
  /\ CurTok = CH_COMMA
  /\ log = <<"Expected ')' in prototype">>

\* C21: parsing never changes the operator-precedence table: from the moment
\* main has installed the standard operators the table holds exactly those
\* entries, whatever lookups and parse calls have been made.
C21_TableUnchanged ==
  pc \in {"prime", "run", "done"} => BinopPrecedence = StandardOperators

\* C22: ParseIdentifierExpr, entered on an identifier whose next token is
\* not ( , returns VariableExprAST with the text of that identifier, also
\* when the next token is an identifier that has overwritten
\* identifierString, and has read exactly one token: the cursor is on the
\* token that followed the identifier.
C22_VariableReference ==
  ret.from = "ParseIdentifierExpr" =>
    LET ts == TokenStream(input)
        i == ret.at
    IN (/\ TokAt(ts, i)[1] = tok_identifier
        /\ TokAt(ts, i + 1) # <<CH_LPAREN>>)
       => /\ ret.val = VariableExprAST(TokAt(ts, i)[2])
          /\ toks = SubSeq(ts, 1, i + 1)
          /\ CurTok = TokAt(ts, i + 1)[1]

\* a f : the variable a has been returned with the cursor on f, whose text
\* is now in identifierString.
C22_Witness ==
  /\ input = <<97, CH_SPACE, 102>>
  /\ ret = [from |-> "ParseIdentifierExpr", at |-> 1,
            val |-> VariableExprAST(<<97>>)]
  /\ CurTok = tok_identifier
  /\ identifierString = <<102>>
  /\ toks = << <<tok_identifier, <<97>> >>, <<tok_identifier, <<102>> >> >>

====
